---- MODULE Spec2Model ----
(***************************************************************************)
(* Model of the local job runner (LocalJob: Run, Kill, prepareRun,         *)
(* updateRepository, checkoutRepository, installVaultKeyFile and the       *)
(* command builders) of the semaphore task runner.                         *)
(*                                                                         *)
(* Go pointers (to string, int, os.Process) are modelled as options: the   *)
(* empty sequence <<>> is nil and <<v>> is a pointer to v.  Go errors are  *)
(* options too: NoErr is nil and Err(e) is the error named e.              *)
(***************************************************************************)
EXTENDS Integers, Sequences, FiniteSets, TLC

VARIABLES
    Task,                  \* LocalJob.Task         (received constant field)
    Template,              \* LocalJob.Template     (received constant field)
    Inventory,             \* LocalJob.Inventory    (received constant field)
    Repository,            \* LocalJob.Repository   (received constant field)
    Environment,           \* LocalJob.Environment  (received constant field)
    Process,               \* LocalJob.Process      (internal field, nilable handle)
    vaultFileInstallation, \* LocalJob.vaultFileInstallation
    runUsername,           \* Run's parameter username
    runIncomingVersion,    \* Run's parameter incomingVersion
    runPc,                 \* position of the goroutine executing Run
    runErr,                \* the value Run returned (once runPc = "returned")
    deferred,              \* the deferred calls Run has registered, oldest first
    args,                  \* Run's local variable args
    environmentVariables,  \* Run's local variable environmentVariables
    ops,                   \* history of the calls Run made to its collaborators
    steps,                 \* history of the prepare steps: name, calls, error returned
    log,                   \* messages received by Logger.Log, oldest first
    status,                \* last status received by Logger.SetStatus
    procState,             \* state of the external OS process
    killPc,                \* position of the goroutine executing Kill
    kills,                 \* number of Kill invocations so far
    killRequests,          \* number of Process.Kill() requests issued
    built,                 \* result of a command builder called on its own
    db,                    \* BoltDb.db: the buckets of the bolt store
    dbRet                  \* what the last operation on the bolt store returned

vars == <<Task, Template, Inventory, Repository, Environment, Process,
          vaultFileInstallation, runUsername, runIncomingVersion, runPc, runErr,
          deferred, args, environmentVariables, ops, steps, log, status,
          procState, killPc, kills, killRequests, built, db, dbRet>>

jobVars == <<Task, Template, Inventory, Repository, Environment>>
boltVars == <<db, dbRet>>

-----------------------------------------------------------------------------
(* Bounds of the model.                                                    *)

MaxKills == 2

-----------------------------------------------------------------------------
(* Options and errors.                                                     *)

Nil == <<>>
Ptr(v) == <<v>>
Deref(p) == p[1]

NoErr == <<>>
Err(e) == <<e>>

-----------------------------------------------------------------------------
(* History of the calls made to the collaborators (VCS client, file       *)
(* system, App, key installer), in call order.                             *)

\* A call of name with argument a (Nil when it takes none) that answered res.
Call(name, a, res) == [op |-> name, arg |-> a, res |-> res]

CountOp(h, name) == Cardinality({i \in DOMAIN h : h[i].op = name})
HasOp(h, name) == \E i \in DOMAIN h : h[i].op = name

\* os.IsNotExist(err)
IsNotExist(err) == err = Err("ErrNotExist")

\* Results a collaborator call can produce.
ErrOf(name) == {NoErr, Err(name)}
ValidateErrs == {NoErr, Err("ErrNotExist"), Err("ErrInvalidRepo")}

-----------------------------------------------------------------------------
(* Faulty variants of updateRepository and checkoutRepository, used to     *)
(* test that the properties below depend on the code.                      *)

\* A failed pull is returned as it is, without the clone fallback.
updateRepositoryNoFallback(vErr, canBePulled, pullErr, rmErr, cloneErr) ==
    LET validate == Call("ValidateRepo", Nil, vErr)
        canPull  == Call("CanBePulled", Nil, IF canBePulled THEN <<"true">> ELSE <<"false">>)
        pull     == Call("Pull", Nil, pullErr)
        remove   == Call("RemoveAll", Nil, rmErr)
        clone    == Call("Clone", Nil, cloneErr)
    IN  IF vErr # NoErr
        THEN IF ~IsNotExist(vErr)
             THEN IF rmErr # NoErr
                  THEN [ops |-> <<validate, remove>>, err |-> rmErr]
                  ELSE [ops |-> <<validate, remove, clone>>, err |-> cloneErr]
             ELSE [ops |-> <<validate, clone>>, err |-> cloneErr]
        ELSE IF canBePulled
             THEN [ops |-> <<validate, canPull, pull>>, err |-> pullErr]
             ELSE IF rmErr # NoErr
                  THEN [ops |-> <<validate, canPull, remove>>, err |-> rmErr]
                  ELSE [ops |-> <<validate, canPull, remove, clone>>, err |-> cloneErr]

\* An invalid working copy is pulled before it is replaced.
updateRepositoryPullsInvalid(vErr, canBePulled, pullErr, rmErr, cloneErr) ==
    LET validate == Call("ValidateRepo", Nil, vErr)
        canPull  == Call("CanBePulled", Nil, IF canBePulled THEN <<"true">> ELSE <<"false">>)
        pull     == Call("Pull", Nil, pullErr)
        remove   == Call("RemoveAll", Nil, rmErr)
        clone    == Call("Clone", Nil, cloneErr)
    IN  IF IsNotExist(vErr)
        THEN [ops |-> <<validate, clone>>, err |-> cloneErr]
        ELSE IF canBePulled /\ pullErr = NoErr
             THEN [ops |-> <<validate, canPull, pull>>, err |-> NoErr]
             ELSE LET tried == IF canBePulled THEN <<validate, canPull, pull>>
                               ELSE <<validate, canPull>>
                  IN  IF rmErr # NoErr
                      THEN [ops |-> tried \o <<remove>>, err |-> rmErr]
                      ELSE [ops |-> tried \o <<remove, clone>>, err |-> cloneErr]

\* The error of os.RemoveAll is ignored: the clone follows a failed removal.
updateRepositoryIgnoresRemoveErr(vErr, canBePulled, pullErr, rmErr, cloneErr) ==
    LET validate == Call("ValidateRepo", Nil, vErr)
        canPull  == Call("CanBePulled", Nil, IF canBePulled THEN <<"true">> ELSE <<"false">>)
        pull     == Call("Pull", Nil, pullErr)
        remove   == Call("RemoveAll", Nil, rmErr)
        clone    == Call("Clone", Nil, cloneErr)
    IN  IF vErr # NoErr
        THEN IF ~IsNotExist(vErr)
             THEN [ops |-> <<validate, remove, clone>>, err |-> cloneErr]
             ELSE [ops |-> <<validate, clone>>, err |-> cloneErr]
        ELSE IF canBePulled /\ pullErr = NoErr
             THEN [ops |-> <<validate, canPull, pull>>, err |-> NoErr]
             ELSE LET tried == IF canBePulled THEN <<validate, canPull, pull>>
                               ELSE <<validate, canPull>>
                  IN  [ops |-> tried \o <<remove, clone>>, err |-> cloneErr]

\* The pinned revision is ignored: the working copy stays at the branch tip.
checkoutRepositoryIgnoresPin(commitHash, vErr, coErr) ==
    [ops |-> <<Call("ValidateRepo", Nil, vErr)>>, err |-> vErr]

(* LocalJob.updateRepository, as a function of what the VCS client and    *)
(* the file system answer.  vErr: repo.ValidateRepo(); canBePulled:       *)
(* repo.CanBePulled(); pullErr: repo.Pull(); rmErr: os.RemoveAll();        *)
(* cloneErr: repo.Clone().  The result is the calls made and the error     *)
(* returned.                                                               *)

Bool(b) == IF b THEN <<"true">> ELSE <<"false">>

updateRepository(vErr, canBePulled, pullErr, rmErr, cloneErr) ==
    LET validate == Call("ValidateRepo", Nil, vErr)
        canPull  == Call("CanBePulled", Nil, Bool(canBePulled))
        pull     == Call("Pull", Nil, pullErr)
        remove   == Call("RemoveAll", Nil, rmErr)
        clone    == Call("Clone", Nil, cloneErr)
    IN  IF vErr # NoErr
        THEN IF ~IsNotExist(vErr)
             THEN IF rmErr # NoErr
                  THEN [ops |-> <<validate, remove>>, err |-> rmErr]
                  ELSE [ops |-> <<validate, remove, clone>>, err |-> cloneErr]
             ELSE [ops |-> <<validate, clone>>, err |-> cloneErr]
        ELSE IF canBePulled /\ pullErr = NoErr
             THEN [ops |-> <<validate, canPull, pull>>, err |-> NoErr]
             ELSE LET tried == IF canBePulled THEN <<validate, canPull, pull>>
                               ELSE <<validate, canPull>>
                  IN  IF rmErr # NoErr
                      THEN [ops |-> tried \o <<remove>>, err |-> rmErr]
                      ELSE [ops |-> tried \o <<remove, clone>>, err |-> cloneErr]

(* LocalJob.checkoutRepository.  commitHash: t.Task.CommitHash; vErr:      *)
(* repo.ValidateRepo(); coErr: repo.Checkout().                            *)

checkoutRepository(commitHash, vErr, coErr) ==
    IF vErr # NoErr
    THEN [ops |-> <<Call("ValidateRepo", Nil, vErr)>>, err |-> vErr]
    ELSE IF commitHash # Nil
         THEN [ops |-> <<Call("ValidateRepo", Nil, vErr),
                         Call("Checkout", Deref(commitHash), coErr)>>,
               err |-> coErr]
         ELSE [ops |-> <<Call("ValidateRepo", Nil, vErr)>>, err |-> NoErr]

-----------------------------------------------------------------------------
(* Go strings are sequences of pieces, so that concatenation is \o and the *)
(* empty string is <<>>.  Stored JSON texts are strings whose pieces are   *)
(* the JSON tokens.                                                        *)

Str(s) == <<s>>
Empty == <<>>

\* Enumerated values of package db (symbolic).
TemplateAnsible == "ansible"
TemplateTask == "task"
TemplateBuild == "build"
InventoryFile == "file"
InventoryStatic == "static"
InventoryStaticYaml == "static-yaml"
AccessKeySSH == "ssh"
AccessKeyLoginPassword == "login_password"
AccessKeyNone == "none"
RepositoryLocal == "local"
RepositoryGit == "git"

\* util.Config.TmpPath
TmpPath == Str("/tmp/semaphore")

\* strconv.Itoa for non-negative numbers: the decimal digits, most significant first.
Digit(d) == CASE d = 0 -> "0" [] d = 1 -> "1" [] d = 2 -> "2" [] d = 3 -> "3"
              [] d = 4 -> "4" [] d = 5 -> "5" [] d = 6 -> "6" [] d = 7 -> "7"
              [] d = 8 -> "8" [] d = 9 -> "9"

RECURSIVE Itoa(_)
Itoa(n) == IF n < 10 THEN <<Digit(n)>> ELSE Itoa(n \div 10) \o <<Digit(n % 10)>>

-----------------------------------------------------------------------------
(* encoding/json on the token texts.                                       *)

JSONPunct == {"[", "]", "{", "}", ",", ":"}

Interior(text) == SubSeq(text, 2, Len(text) - 1)

\* json.Unmarshal(text, &[]string): a bracketed, comma separated list of strings.
IsStringArray(text) ==
    /\ Len(text) >= 2
    /\ text[1] = "["
    /\ text[Len(text)] = "]"
    /\ LET in == Interior(text)
       IN  \/ Len(in) = 0
           \/ /\ Len(in) % 2 = 1
              /\ \A i \in DOMAIN in :
                    IF i % 2 = 1 THEN in[i] \notin JSONPunct ELSE in[i] = ","

UnmarshalStringArray(text) ==
    IF IsStringArray(text)
    THEN LET in == Interior(text)
         IN  [val |-> [i \in 1..((Len(in) + 1) \div 2) |-> Str(in[2 * i - 1])],
              err |-> NoErr]
    ELSE [val |-> <<>>, err |-> Err("ErrJSONSyntax")]

\* Values of a map[string]interface{}: strings, numbers, (nilable) string
\* pointers and nested maps.
JStr(str) == [t |-> "string", v |-> str]
JNum(n) == [t |-> "number", v |-> Itoa(n)]
JPtr(ptr) == [t |-> "pointer", v |-> ptr]
JObj(m) == [t |-> "object", v |-> m]

\* json.Unmarshal(text, &map[string]...): a braced list of key : value members.
IsObject(text) ==
    /\ Len(text) >= 2
    /\ text[1] = "{"
    /\ text[Len(text)] = "}"
    /\ LET in == Interior(text)
       IN  \/ Len(in) = 0
           \/ /\ Len(in) % 4 = 3
              /\ \A i \in DOMAIN in :
                    CASE i % 4 = 1 -> in[i] \notin JSONPunct
                      [] i % 4 = 2 -> in[i] = ":"
                      [] i % 4 = 3 -> in[i] \notin JSONPunct
                      [] OTHER     -> in[i] = ","

\* The members of a valid object text; a repeated key keeps its last value.
ObjectOf(text) ==
    LET in == Interior(text)
        n  == (Len(in) + 1) \div 4
        keys == {in[4 * j - 3] : j \in 1..n}
        last(k) == CHOOSE j \in 1..n :
                      /\ in[4 * j - 3] = k
                      /\ \A l \in 1..n : in[4 * l - 3] = k => l <= j
    IN  [k \in keys |-> JStr(Str(in[4 * last(k) - 1]))]

UnmarshalObject(text) ==
    IF IsObject(text)
    THEN [val |-> ObjectOf(text), err |-> NoErr]
    ELSE [val |-> <<>>, err |-> Err("ErrJSONSyntax")]

\* m with key k set to v (Go: m[k] = v).
MapSet(m, k, v) == [x \in (DOMAIN m) \cup {k} |-> IF x = k THEN v ELSE m[x]]

EmptyMap == [x \in {} |-> <<>>]

\* json.Marshal writes the keys of a map in sorted order.
KeyOrder == <<"app", "id", "incoming_version", "message", "semaphore_vars",
              "target_version", "task_details", "type", "username">>

RECURSIVE MarshalValue(_), MarshalMembers(_, _, _)
MarshalValue(x) ==
    CASE x.t = "string"  -> <<"\"">> \o x.v \o <<"\"">>
      [] x.t = "number"  -> x.v
      [] x.t = "pointer" -> IF x.v = Nil THEN <<"null">>
                            ELSE <<"\"">> \o Deref(x.v) \o <<"\"">>
      [] x.t = "object"  -> <<"{">> \o MarshalMembers(x.v, 1, TRUE) \o <<"}">>

MarshalMembers(m, i, first) ==
    IF i > Len(KeyOrder) THEN <<>>
    ELSE IF KeyOrder[i] \in DOMAIN m
         THEN (IF first THEN <<>> ELSE <<",">>)
              \o <<"\"", KeyOrder[i], "\"", ":">> \o MarshalValue(m[KeyOrder[i]])
              \o MarshalMembers(m, i + 1, FALSE)
         ELSE MarshalMembers(m, i + 1, first)

Marshal(m) == MarshalValue(JObj(m))

-----------------------------------------------------------------------------
(* LocalJob.getEnvironmentExtraVars and getEnvironmentExtraVarsJSON.       *)

getEnvironmentExtraVars(username, incomingVersion) ==
    LET parsed == IF Environment.JSON # Empty
                  THEN UnmarshalObject(Environment.JSON)
                  ELSE [val |-> EmptyMap, err |-> NoErr]
        d1 == MapSet(EmptyMap, "id", JNum(Task.ID))
        d2 == IF Task.Message # Empty
              THEN MapSet(d1, "message", JStr(Task.Message)) ELSE d1
        d3 == MapSet(d2, "username", JStr(username))
        d4 == IF Template.Type # TemplateTask
              THEN MapSet(d3, "type", JStr(Str(Template.Type))) ELSE d3
        d5 == IF Template.Type # TemplateTask /\ incomingVersion # Nil
              THEN MapSet(d4, "incoming_version", JPtr(incomingVersion)) ELSE d4
        taskDetails ==
              IF Template.Type # TemplateTask /\ Template.Type = TemplateBuild
              THEN MapSet(d5, "target_version", JPtr(Task.Version)) ELSE d5
        semVars == MapSet(EmptyMap, "task_details", JObj(taskDetails))
    IN  IF parsed.err # NoErr
        THEN [extraVars |-> EmptyMap, err |-> parsed.err]
        ELSE [extraVars |-> MapSet(parsed.val, "semaphore_vars", JObj(semVars)),
              err |-> NoErr]

\* Faulty variant of getEnvironmentExtraVarsJSON: every job kind but the
\* plain task tells the target version.
getEnvironmentExtraVarsJSONTargetAlways(username, incomingVersion) ==
    LET parsed == IF Environment.JSON # Empty
                  THEN UnmarshalObject(Environment.JSON)
                  ELSE [val |-> EmptyMap, err |-> NoErr]
        d1 == MapSet(EmptyMap, "id", JNum(Task.ID))
        d2 == IF Task.Message # Empty
              THEN MapSet(d1, "message", JStr(Task.Message)) ELSE d1
        d3 == MapSet(d2, "username", JStr(username))
        d4 == IF Template.Type # TemplateTask
              THEN MapSet(d3, "type", JStr(Str(Template.Type))) ELSE d3
        d5 == IF Template.Type # TemplateTask /\ incomingVersion # Nil
              THEN MapSet(d4, "incoming_version", JPtr(incomingVersion)) ELSE d4
        taskDetails ==
              IF Template.Type # TemplateTask
              THEN MapSet(d5, "target_version", JPtr(Task.Version)) ELSE d5
        semVars == MapSet(EmptyMap, "task_details", JObj(taskDetails))
        extraVars == MapSet(parsed.val, "semaphore_vars", JObj(semVars))
    IN  IF parsed.err # NoErr
        THEN [str |-> Empty, err |-> parsed.err]
        ELSE [str |-> Marshal(extraVars), err |-> NoErr]

getEnvironmentExtraVarsJSON(username, incomingVersion) ==
    LET parsed == IF Environment.JSON # Empty
                  THEN UnmarshalObject(Environment.JSON)
                  ELSE [val |-> EmptyMap, err |-> NoErr]
        d1 == MapSet(EmptyMap, "id", JNum(Task.ID))
        d2 == IF Task.Message # Empty
              THEN MapSet(d1, "message", JStr(Task.Message)) ELSE d1
        d3 == MapSet(d2, "username", JStr(username))
        d4 == IF Template.Type # TemplateTask
              THEN MapSet(d3, "type", JStr(Str(Template.Type))) ELSE d3
        d5 == IF Template.Type # TemplateTask /\ incomingVersion # Nil
              THEN MapSet(d4, "incoming_version", JPtr(incomingVersion)) ELSE d4
        taskDetails ==
              IF Template.Type # TemplateTask /\ Template.Type = TemplateBuild
              THEN MapSet(d5, "target_version", JPtr(Task.Version)) ELSE d5
        semVars == MapSet(EmptyMap, "task_details", JObj(taskDetails))
        extraVars == MapSet(parsed.val, "semaphore_vars", JObj(semVars))
    IN  IF parsed.err # NoErr
        THEN [str |-> Empty, err |-> parsed.err]
        ELSE [str |-> Marshal(extraVars), err |-> NoErr]

(* LocalJob.getEnvironmentENV: Environment.ENV is a nilable JSON text of a *)
(* flat string map; the result lists KEY=VALUE in the order the map is     *)
(* ranged over, here the order given by perm (a sequence of the keys).     *)

EnvEntry(k, x) == <<k, "=">> \o x.v

getEnvironmentENV(perm) ==
    LET parsed == IF Environment.ENV # Nil
                  THEN UnmarshalObject(Deref(Environment.ENV))
                  ELSE [val |-> EmptyMap, err |-> NoErr]
    IN  IF parsed.err # NoErr
        THEN [arr |-> <<>>, err |-> parsed.err]
        ELSE [arr |-> [i \in DOMAIN perm |-> EnvEntry(perm[i], parsed.val[perm[i]])],
              err |-> NoErr]

\* The orders in which a map with key set ks can be ranged over.
Orders(ks) == {p \in [1..Cardinality(ks) -> ks] : \A k \in ks : \E i \in DOMAIN p : p[i] = k}

EnvKeys == IF Environment.ENV # Nil /\ IsObject(Deref(Environment.ENV))
           THEN DOMAIN ObjectOf(Deref(Environment.ENV)) ELSE {}

-----------------------------------------------------------------------------
(* The key installations made by installInventory for the inventory login  *)
(* and become roles (fields of LocalJob), and GetPath().                   *)

sshKeyInstallation ==
    [Path |-> Str("ssh_key_file"), SshAgent |-> [SocketFile |-> Str("agent.sock")]]
becomeKeyInstallation ==
    [Path |-> Str("become_key_file"), SshAgent |-> [SocketFile |-> Empty]]
NoInstallation == [Path |-> Empty, SshAgent |-> [SocketFile |-> Empty]]
VaultInstallation ==
    [Path |-> Str("vault_pass_file"), SshAgent |-> [SocketFile |-> Empty]]

GetPath(installation) == installation.Path

\* err.Error()
ErrorText(err) == Str(Deref(err))

-----------------------------------------------------------------------------
(* LocalJob.getTerraformArgs.  The variables are passed as "-var <key>" in  *)
(* the order the map is ranged over, here the order given by perm.         *)

\* Faulty variant of getTerraformArgs: the dry run applies as well.
getTerraformArgsAlwaysApply(username, incomingVersion, perm) ==
    LET a0 == <<Str("apply")>>
        ev == getEnvironmentExtraVars(username, incomingVersion)
    IN  IF ev.err # NoErr
        THEN [args |-> a0, err |-> ev.err,
              log |-> <<ErrorText(ev.err),
                        Str("Could not remove command environment, if existant it will be passed to --extra-vars. This is not fatal but be aware of side effects")>>]
        ELSE [args |-> a0 \o [i \in 1..(2 * Len(perm)) |->
                                IF i % 2 = 1 THEN Str("-var") ELSE Str(perm[i \div 2])],
              err |-> NoErr, log |-> <<>>]

getTerraformArgs(username, incomingVersion, perm) ==
    LET a0 == IF Task.DryRun THEN <<Str("plan")>> ELSE <<Str("apply")>>
        ev == getEnvironmentExtraVars(username, incomingVersion)
    IN  IF ev.err # NoErr
        THEN [args |-> a0, err |-> ev.err,
              log |-> <<ErrorText(ev.err),
                        Str("Could not remove command environment, if existant it will be passed to --extra-vars. This is not fatal but be aware of side effects")>>]
        ELSE [args |-> a0 \o [i \in 1..(2 * Len(perm)) |->
                                IF i % 2 = 1 THEN Str("-var") ELSE Str(perm[i \div 2])],
              err |-> NoErr, log |-> <<>>]

\* The keys getTerraformArgs ranges over.
ExtraVarsKeys(username, incomingVersion) ==
    DOMAIN getEnvironmentExtraVars(username, incomingVersion).extraVars

-----------------------------------------------------------------------------
(* Parts of LocalJob.getPlaybookArgs.                                      *)

\* Faulty variant of inventoryFile: the YAML inventory has no suffix.
inventoryFileWithoutSuffix(inventory, task) ==
    IF inventory.Type = InventoryFile THEN inventory.Inventory
    ELSE TmpPath \o Str("/inventory_") \o Itoa(task.ID)

\* Lines 183-192: the inventory file of an inventory of a known type.
inventoryFile(inventory, task) ==
    IF inventory.Type = InventoryFile THEN inventory.Inventory
    ELSE TmpPath \o Str("/inventory_") \o Itoa(task.ID)
         \o (IF inventory.Type = InventoryStaticYaml THEN Str(".yml") ELSE Empty)

\* Faulty variant of becomeKeyRejected: every become key is accepted.
becomeKeyNeverRejected(inventory) == FALSE

\* Lines 218-227: the default case of the switch on the become key type.
becomeKeyRejected(inventory) ==
    /\ inventory.BecomeKeyID # Nil
    /\ inventory.BecomeKey.Type \notin {AccessKeyLoginPassword, AccessKeyNone}

\* Faulty variant of appendExtraArgs: the task arguments come first.
appendExtraArgsTaskFirst(a, templateExtraArgs, taskExtraArgs, playbookName) ==
    a \o taskExtraArgs \o templateExtraArgs \o <<playbookName>>

\* Lines 276-278: the three appends that end the vector.
appendExtraArgs(a, templateExtraArgs, taskExtraArgs, playbookName) ==
    a \o templateExtraArgs \o taskExtraArgs \o <<playbookName>>

-----------------------------------------------------------------------------
(* LocalJob.getPlaybookArgs.  The result holds the named results args and  *)
(* err as they are when the function returns, and the messages it logged.  *)

getPlaybookArgs(username, incomingVersion) ==
    LET playbookName == IF Task.Playbook = Empty THEN Template.Playbook
                        ELSE Task.Playbook
        inventoryKnown ==
            Inventory.Type \in {InventoryFile, InventoryStatic, InventoryStaticYaml}
        inventory == inventoryFile(Inventory, Task)
        a0 == <<Str("-i"), inventory>>
        sshBad == /\ Inventory.SSHKeyID # Nil
                  /\ Inventory.SSHKey.Type \notin
                        {AccessKeySSH, AccessKeyLoginPassword, AccessKeyNone}
        a1 == IF Inventory.SSHKeyID = Nil THEN a0
              ELSE IF Inventory.SSHKey.Type = AccessKeySSH
                   THEN IF Inventory.SSHKey.SshKey.Login # Empty
                        THEN a0 \o <<Str("--extra-vars={\"ansible_user\": \"")
                                     \o Inventory.SSHKey.SshKey.Login \o Str("\"}")>>
                        ELSE a0
              ELSE IF Inventory.SSHKey.Type = AccessKeyLoginPassword
                   THEN a0 \o <<Str("--extra-vars=@") \o GetPath(sshKeyInstallation)>>
              ELSE a0
        becomeBad == becomeKeyRejected(Inventory)
        a2 == IF Inventory.BecomeKeyID # Nil
                 /\ Inventory.BecomeKey.Type = AccessKeyLoginPassword
              THEN a1 \o <<Str("--extra-vars=@") \o GetPath(becomeKeyInstallation)>>
              ELSE a1
        a3 == a2 \o (IF Task.Debug THEN <<Str("-vvvv")>> ELSE <<>>)
                 \o (IF Task.Diff THEN <<Str("--diff")>> ELSE <<>>)
                 \o (IF Task.DryRun THEN <<Str("--check")>> ELSE <<>>)
        a4 == IF Template.VaultKeyID # Nil
              THEN a3 \o <<Str("--vault-password-file"), GetPath(vaultFileInstallation)>>
              ELSE a3
        ev == getEnvironmentExtraVarsJSON(username, incomingVersion)
        a5 == IF ev.err = NoErr /\ ev.str # Empty
              THEN a4 \o <<Str("--extra-vars"), ev.str>> ELSE a4
        log5 == IF ev.err # NoErr
                THEN <<ErrorText(ev.err),
                       Str("Could not remove command environment, if existant it will be passed to --extra-vars. This is not fatal but be aware of side effects")>>
                ELSE <<>>
        \* err after "extraVars, err := ..." (the named result is assigned)
        err5 == ev.err
        tpl == IF Template.Arguments # Nil
               THEN UnmarshalStringArray(Deref(Template.Arguments))
               ELSE [val |-> <<>>, err |-> err5]
        parseTask == Template.AllowOverrideArgsInTask /\ Task.Arguments # Nil
        tsk == IF parseTask
               THEN UnmarshalStringArray(Deref(Task.Arguments))
               ELSE [val |-> <<>>, err |-> tpl.err]
        taskExtraArgs == IF Task.Limit # Empty
                         THEN tsk.val \o <<Str("--limit=") \o Task.Limit>>
                         ELSE tsk.val
        log7 == IF Task.Limit # Empty
                THEN log5 \o <<Str("--limit=") \o Task.Limit>> ELSE log5
    IN  IF ~inventoryKnown
        THEN [args |-> <<>>, err |-> Err("invalid invetory type"), log |-> <<>>]
        ELSE IF sshBad
        THEN [args |-> a0, log |-> <<>>,
              err |-> Err("access key does not suite for inventory's user credentials")]
        ELSE IF becomeBad
        THEN [args |-> a1, log |-> <<>>,
              err |-> Err("access key does not suite for inventory's sudo user credentials")]
        ELSE IF Template.Arguments # Nil /\ tpl.err # NoErr
        THEN [args |-> a5, err |-> tpl.err,
              log |-> log5 \o <<Str("Invalid format of the template extra arguments, must be valid JSON")>>]
        ELSE IF parseTask /\ tsk.err # NoErr
        THEN [args |-> a5, err |-> tsk.err,
              log |-> log5 \o <<Str("Invalid format of the TaskRunner extra arguments, must be valid JSON")>>]
        ELSE [args |-> appendExtraArgs(a5, tpl.val, taskExtraArgs, playbookName),
              err |-> tsk.err, log |-> log7]

-----------------------------------------------------------------------------
(* The jobs the model runs.  Repository handling and command building read *)
(* disjoint fields, so the jobs vary one group of fields at a time around  *)
(* a default job.                                                          *)

DefaultTask ==
    [ID |-> 42, Playbook |-> Empty, CommitHash |-> Nil, Message |-> Empty,
     Version |-> Nil, Arguments |-> Nil, DryRun |-> FALSE, Debug |-> FALSE,
     Diff |-> FALSE, Limit |-> Empty]

DefaultTemplate ==
    [App |-> TemplateAnsible, Type |-> TemplateTask, Playbook |-> Str("site.yml"),
     Arguments |-> Nil, AllowOverrideArgsInTask |-> FALSE, VaultKeyID |-> Nil]

KeyOfType(type) == [Type |-> type, SshKey |-> [Login |-> Empty]]

DefaultInventory ==
    [Type |-> InventoryFile, Inventory |-> Str("hosts.ini"),
     SSHKeyID |-> Nil, SSHKey |-> KeyOfType(""),
     BecomeKeyID |-> Nil, BecomeKey |-> KeyOfType("")]

DefaultRepository == [Type |-> RepositoryLocal, GitURL |-> Str("/srv/playbooks")]

DefaultEnvironment == [JSON |-> Empty, ENV |-> Nil]

DefaultJob ==
    [Task |-> DefaultTask, Template |-> DefaultTemplate, Inventory |-> DefaultInventory,
     Repository |-> DefaultRepository, Environment |-> DefaultEnvironment]

CommitHashes == {Nil, Ptr(Str("rev1")), Ptr(Str("rev2"))}

RepoJobs ==
    {[DefaultJob EXCEPT !.Repository.Type = rt, !.Task.CommitHash = ch] :
        rt \in {RepositoryLocal, RepositoryGit}, ch \in CommitHashes}

AppJobs ==
    {[DefaultJob EXCEPT !.Template.App = app, !.Template.VaultKeyID = vk] :
        app \in {TemplateAnsible, "terraform"}, vk \in {Nil, Ptr(7)}}

ArrayTexts == {<<"[", "]">>, <<"[", "-v", ",", "--flush-cache", "]">>, <<"[", "-v">>}

PayloadJobs ==
    {[DefaultJob EXCEPT !.Environment.JSON = js, !.Environment.ENV = env,
                        !.Template.Arguments = ta] :
        js \in {Empty, <<"{", "app", ":", "web", "}">>, <<"{", "app">>},
        env \in {Nil, Ptr(<<"{", "PATH", ":", "/bin", "}">>), Ptr(<<"{", "PATH">>)},
        ta \in {Nil} \cup {Ptr(t) : t \in ArrayTexts}}

InventoryJobs ==
    {[DefaultJob EXCEPT !.Inventory.Type = it, !.Inventory.SSHKeyID = kid,
                        !.Inventory.SSHKey = KeyOfType(kt)] :
        it \in {InventoryFile, InventoryStatic, InventoryStaticYaml, "unknown"},
        kid \in {Nil, Ptr(3)},
        kt \in {AccessKeySSH, "unknown"}}

\* Inventories whose login key and become key are of every kind, or absent.
KeyTypes == {AccessKeySSH, AccessKeyLoginPassword, AccessKeyNone, "unknown"}

KeyJobs ==
    {[DefaultJob EXCEPT !.Inventory.SSHKeyID = Ptr(3),
                        !.Inventory.SSHKey = KeyOfType(kt),
                        !.Inventory.BecomeKeyID = bid,
                        !.Inventory.BecomeKey = KeyOfType(bt)] :
        kt \in KeyTypes, bid \in {Nil, Ptr(4)}, bt \in KeyTypes}

Jobs == RepoJobs \cup AppJobs \cup PayloadJobs \cup InventoryJobs \cup KeyJobs

\* The parameters Run is called with.
Usernames == {Str("admin")}
IncomingVersions == {Nil}

-----------------------------------------------------------------------------
(* State after construction of the LocalJob: nothing has run.              *)

\* The LocalJob as constructed for job j: received fields set, nothing has run.
NewLocalJob(j) ==
    /\ Task = j.Task
    /\ Template = j.Template
    /\ Inventory = j.Inventory
    /\ Repository = j.Repository
    /\ Environment = j.Environment
    /\ Process = Nil
    /\ vaultFileInstallation = NoInstallation
    /\ runPc = "created"
    /\ runErr = NoErr
    /\ deferred = <<>>
    /\ args = <<>>
    /\ environmentVariables = <<>>
    /\ ops = <<>>
    /\ steps = <<>>
    /\ log = <<>>
    /\ status = "waiting"
    /\ procState = "none"
    /\ killPc = "idle"
    /\ kills = 0
    /\ killRequests = 0

\* No command builder has been called on its own.
NotBuilt == <<>>

\* The bolt store right after Connect(): no bucket, nothing returned yet.
NoBuckets == <<>>
NoReturn == <<>>

Init ==
    /\ \E j \in Jobs : NewLocalJob(j)
    /\ runUsername = Empty
    /\ runIncomingVersion = Nil
    /\ built = NotBuilt
    /\ db = NoBuckets
    /\ dbRet = NoReturn

-----------------------------------------------------------------------------
(* Leaving Run.  The deferred calls run last-registered first, both when   *)
(* Run returns and when it panics.                                         *)

DeferredCalls ==
    [i \in 1..Len(deferred) |-> Call(deferred[Len(deferred) + 1 - i], Nil, NoErr)]

\* Run returns err; h is the call history up to the return statement.
Returns(err, h) ==
    /\ runPc' = "returned"
    /\ runErr' = err
    /\ ops' = h \o DeferredCalls
    /\ deferred' = <<>>

\* Run panics: the deferred calls run, nothing is returned.
Panics(h) ==
    /\ runPc' = "panicked"
    /\ ops' = h \o DeferredCalls
    /\ deferred' = <<>>
    /\ UNCHANGED runErr

\* Run goes on to its next statement.
GoesOn(pc, h) ==
    /\ runPc' = pc
    /\ ops' = h
    /\ UNCHANGED <<runErr, deferred>>

\* Faulty variant of PrepareFailed: the error is logged and Run carries on
\* with the command building.
PrepareFailedCarriesOn(msg, err, h) ==
    /\ log' = Append(log, msg \o ErrorText(err))
    /\ GoesOn("prepared", h)

\* A prepare step failed with err: prepareRun logs msg + err.Error() and
\* returns err, and Run returns what prepareRun returned (lines 287-290).
PrepareFailed(msg, err, h) ==
    /\ log' = Append(log, msg \o ErrorText(err))
    /\ Returns(err, h)

\* Faulty variant of PrepareStep: a step that succeeded ends the preparation.
PrepareStepEndsPreparation(step, r, answers, msg, pc) ==
    /\ steps' = Append(steps, [step |-> step, calls |-> r.ops, err |-> r.err,
                               answers |-> answers])
    /\ IF r.err # NoErr
       THEN PrepareFailed(msg, r.err, ops \o r.ops)
       ELSE GoesOn("prepared", ops \o r.ops) /\ UNCHANGED log

\* The prepare step named step made the calls r.ops and returned r.err, the
\* collaborators being ready to answer with answers: on an error prepareRun
\* fails with msg, else it goes on to the step at pc.
PrepareStep(step, r, answers, msg, pc) ==
    /\ steps' = Append(steps, [step |-> step, calls |-> r.ops, err |-> r.err,
                               answers |-> answers])
    /\ IF r.err # NoErr
       THEN PrepareFailed(msg, r.err, ops \o r.ops)
       ELSE GoesOn(pc, ops \o r.ops) /\ UNCHANGED log

\* A step that is one call of a collaborator.
OneCall(name, err) == [ops |-> <<Call(name, Nil, err)>>, err |-> err]

\* Faulty variant of IsLocal: every repository is synchronized.
IsLocalNever(repository) == FALSE

\* t.Repository.GetType() == db.RepositoryLocal
IsLocal(repository) == repository.Type = RepositoryLocal

killVars == <<killPc, kills, killRequests>>
runLocals == <<runUsername, runIncomingVersion, args, environmentVariables>>

-----------------------------------------------------------------------------
(* Run, step by step.                                                      *)

\* Run is called: SetStatus(running), then prepareRun logs "Preparing: <ID>".
Run ==
    /\ runPc = "created"
    /\ \E u \in Usernames, v \in IncomingVersions :
          /\ runUsername' = u
          /\ runIncomingVersion' = v
    /\ status' = "running"
    /\ log' = Append(log, Str("Preparing: ") \o Itoa(Task.ID))
    /\ runPc' = "checkTmpDir"
    /\ UNCHANGED <<built, boltVars, steps, jobVars, Process, vaultFileInstallation, runErr, deferred, args,
                   environmentVariables, ops, procState, killVars>>

\* prepareRun: checkTmpDir(util.Config.TmpPath)
CheckTmpDir ==
    /\ runPc = "checkTmpDir"
    /\ \E err \in ErrOf("ErrTmpDir") :
          PrepareStep("checkTmpDir", OneCall("checkTmpDir", err), <<err>>,
                      Str("Creating tmp dir failed: "), "repository")
    /\ UNCHANGED <<built, boltVars, jobVars, Process, vaultFileInstallation, runLocals, status,
                   procState, killVars>>

\* prepareRun: the local repository is only looked up with os.Stat
StatRepository ==
    /\ runPc = "repository"
    /\ IsLocal(Repository)
    /\ \E err \in ErrOf("ErrStat") :
          PrepareStep("statRepository",
                      [ops |-> <<Call("Stat", Repository.GitURL, err)>>, err |-> err],
                      <<err>>,
                      Str("Failed in finding static repository at ")
                         \o Repository.GitURL \o Str(": "),
                      "installInventory")
    /\ UNCHANGED <<built, boltVars, jobVars, Process, vaultFileInstallation, runLocals, status,
                   procState, killVars>>

\* prepareRun: t.updateRepository()
UpdateRepository ==
    /\ runPc = "repository"
    /\ ~IsLocal(Repository)
    /\ \E vErr \in ValidateErrs, canBePulled \in BOOLEAN, pullErr \in ErrOf("ErrPull"),
          rmErr \in ErrOf("ErrRemoveAll"), cloneErr \in ErrOf("ErrClone") :
          PrepareStep("updateRepository",
                      updateRepository(vErr, canBePulled, pullErr, rmErr, cloneErr),
                      [vErr |-> vErr, canBePulled |-> canBePulled, pullErr |-> pullErr,
                       rmErr |-> rmErr, cloneErr |-> cloneErr],
                      Str("Failed updating repository: "), "checkoutRepository")
    /\ UNCHANGED <<built, boltVars, jobVars, Process, vaultFileInstallation, runLocals, status,
                   procState, killVars>>

\* prepareRun: t.checkoutRepository()
CheckoutRepository ==
    /\ runPc = "checkoutRepository"
    /\ \E vErr \in ValidateErrs, coErr \in ErrOf("ErrCheckout") :
          PrepareStep("checkoutRepository",
                      checkoutRepository(Task.CommitHash, vErr, coErr),
                      [vErr |-> vErr, coErr |-> coErr],
                      Str("Failed to checkout repository to required commit: "),
                      "installInventory")
    /\ UNCHANGED <<built, boltVars, jobVars, Process, vaultFileInstallation, runLocals, status,
                   procState, killVars>>

\* prepareRun: t.installInventory()
InstallInventory ==
    /\ runPc = "installInventory"
    /\ \E err \in ErrOf("ErrInstallInventory") :
          PrepareStep("installInventory", OneCall("installInventory", err), <<err>>,
                      Str("Failed to install inventory: "), "installRequirements")
    /\ UNCHANGED <<built, boltVars, jobVars, Process, vaultFileInstallation, runLocals, status,
                   procState, killVars>>

\* prepareRun: t.App.InstallRequirements()
InstallRequirements ==
    /\ runPc = "installRequirements"
    /\ \E err \in ErrOf("ErrInstallRequirements") :
          PrepareStep("InstallRequirements", OneCall("InstallRequirements", err),
                      <<err>>,
                      Str("Running galaxy failed: "), "installVaultKeyFile")
    /\ UNCHANGED <<built, boltVars, jobVars, Process, vaultFileInstallation, runLocals, status,
                   procState, killVars>>

\* LocalJob.installVaultKeyFile; installErr is what VaultKey.Install answers.
installVaultKeyFile(installErr) ==
    IF Template.VaultKeyID = Nil
    THEN [ops |-> <<>>, err |-> NoErr, installation |-> vaultFileInstallation]
    ELSE [ops |-> <<Call("VaultKey.Install", Nil, installErr)>>, err |-> installErr,
          installation |-> IF installErr = NoErr THEN VaultInstallation
                           ELSE NoInstallation]

\* prepareRun: t.installVaultKeyFile(), the last prepare step
InstallVaultKeyFile ==
    /\ runPc = "installVaultKeyFile"
    /\ \E installErr \in ErrOf("ErrInstallVaultKey") :
          LET r == installVaultKeyFile(installErr)
          IN  /\ vaultFileInstallation' = r.installation
              /\ PrepareStep("installVaultKeyFile", [ops |-> r.ops, err |-> r.err],
                             <<installErr>>,
                             Str("Failed to install vault password file: "),
                             "prepared")
    /\ UNCHANGED <<built, boltVars, jobVars, Process, runLocals, status, procState, killVars>>

\* Run, lines 288-294: prepareRun returned nil; destroyKeys is deferred.
DeferDestroyKeys ==
    /\ runPc = "prepared"
    /\ deferred' = Append(deferred, "destroyKeys")
    /\ runPc' = "buildArgs"
    /\ UNCHANGED <<built, boltVars, steps, jobVars, Process, vaultFileInstallation, runLocals, runErr, ops,
                   log, status, procState, killVars>>

\* Run, lines 296-307: the command is built for the template's app.
BuildArgs ==
    /\ runPc = "buildArgs"
    /\ IF Template.App = TemplateAnsible
       THEN LET r == getPlaybookArgs(runUsername, runIncomingVersion)
            IN  /\ args' = r.args
                /\ log' = log \o r.log
                /\ IF r.err # NoErr
                   THEN Returns(r.err, ops)
                   ELSE GoesOn("buildEnv", ops)
       ELSE /\ Panics(ops)
            /\ UNCHANGED <<args, log>>
    /\ UNCHANGED <<built, boltVars, steps, jobVars, Process, vaultFileInstallation, runUsername,
                   runIncomingVersion, environmentVariables, status, procState,
                   killVars>>

\* Run, lines 309-326: the process environment is built.
BuildEnv ==
    /\ runPc = "buildEnv"
    /\ \E perm \in Orders(EnvKeys) :
          LET r == getEnvironmentENV(perm)
              sock == Str("SSH_AUTH_SOCK=") \o sshKeyInstallation.SshAgent.SocketFile
          IN  IF r.err # NoErr
              THEN Returns(r.err, ops) /\ UNCHANGED environmentVariables
              ELSE /\ environmentVariables' =
                         IF Inventory.SSHKey.Type = AccessKeySSH /\ Inventory.SSHKeyID # Nil
                         THEN Append(r.arr, sock) ELSE r.arr
                   /\ GoesOn("appRun", ops)
    /\ UNCHANGED <<built, boltVars, steps, jobVars, Process, vaultFileInstallation, runUsername,
                   runIncomingVersion, args, log, status, procState, killVars>>

\* Run, line 328: t.App.Run is invoked; the process starts or fails to start.
AppRun ==
    /\ runPc = "appRun"
    /\ \E err \in ErrOf("ErrProcessStart") :
          LET h == Append(ops, Call("App.Run",
                                    [args |-> args, env |-> environmentVariables], err))
          IN  IF err = NoErr
              THEN GoesOn("callback", h) /\ procState' = "running"
              ELSE Returns(err, h) /\ UNCHANGED procState
    /\ UNCHANGED <<built, boltVars, steps, jobVars, Process, vaultFileInstallation, runLocals, log, status,
                   killVars>>

\* Run, lines 328-330: App.Run calls back with the live process handle.
Callback ==
    /\ runPc = "callback"
    /\ Process' = Ptr("process")
    /\ runPc' = "waiting"
    /\ UNCHANGED <<built, boltVars, steps, jobVars, vaultFileInstallation, runLocals, runErr, deferred, ops,
                   log, status, procState, killVars>>

\* Faulty variant of AppRunReturns: the handle is cleared when Run returns.
AppRunReturnsClearsHandle ==
    /\ runPc = "waiting"
    /\ \E err \in IF procState = "killed" THEN {Err("ErrKilled")} ELSE ErrOf("ErrExit") :
          Returns(err, ops)
    /\ procState' = "exited"
    /\ Process' = Nil
    /\ UNCHANGED <<built, boltVars, steps, jobVars, vaultFileInstallation, runLocals, log, status,
                   killVars>>

\* Run, line 328: the process exits, App.Run returns and so does Run.
AppRunReturns ==
    /\ runPc = "waiting"
    /\ \E err \in IF procState = "killed" THEN {Err("ErrKilled")} ELSE ErrOf("ErrExit") :
          Returns(err, ops)
    /\ procState' = "exited"
    /\ UNCHANGED <<built, boltVars, steps, jobVars, Process, vaultFileInstallation, runLocals, log, status,
                   killVars>>

-----------------------------------------------------------------------------
(* Kill, on another goroutine.  The reads and the write of t.Process are   *)
(* plain accesses of one pointer-sized word: a read that races with the    *)
(* write returns nil or the handle, which are the outcomes of the two      *)
(* orders in which the steps below interleave with Callback.               *)

\* Faulty variant of Kill: the request is remembered in the status.
KillMarksStopped ==
    /\ killPc = "idle"
    /\ kills < MaxKills
    /\ kills' = kills + 1
    /\ killPc' = "check"
    /\ status' = "stopped"
    /\ UNCHANGED <<built, boltVars, steps, jobVars, Process, vaultFileInstallation, runLocals, runPc, runErr,
                   deferred, ops, log, procState, killRequests>>

\* Kill is called.
Kill ==
    /\ killPc = "idle"
    /\ kills < MaxKills
    /\ kills' = kills + 1
    /\ killPc' = "check"
    /\ UNCHANGED <<built, boltVars, steps, jobVars, Process, vaultFileInstallation, runLocals, runPc, runErr,
                   deferred, ops, log, status, procState, killRequests>>

\* Faulty variant of KillCheck: the nil check is missing.
KillCheckMissing(process) == "kill"

\* Kill, lines 35-37: where Kill goes after reading the handle.
KillCheck(process) == IF process = Nil THEN "idle" ELSE "kill"

KillTest ==
    /\ killPc = "check"
    /\ killPc' = KillCheck(Process)
    /\ UNCHANGED <<built, boltVars, steps, jobVars, Process, vaultFileInstallation, runLocals, runPc, runErr,
                   deferred, ops, log, status, procState, kills, killRequests>>

\* Kill, lines 38-41: t.Process.Kill(), an error is logged.
KillProcess ==
    /\ killPc = "kill"
    /\ killRequests' = killRequests + 1
    /\ \E err \in IF procState = "exited" THEN {Err("ErrProcessDone")}
                  ELSE ErrOf("ErrKill") :
          /\ procState' = IF err = NoErr THEN "killed" ELSE procState
          /\ log' = IF err # NoErr THEN Append(log, ErrorText(err)) ELSE log
    /\ killPc' = "idle"
    /\ UNCHANGED <<built, boltVars, steps, jobVars, Process, vaultFileInstallation, runLocals, runPc, runErr,
                   deferred, ops, status, kills>>

-----------------------------------------------------------------------------

Next ==
    \/ Run
    \/ CheckTmpDir
    \/ StatRepository
    \/ UpdateRepository
    \/ CheckoutRepository
    \/ InstallInventory
    \/ InstallRequirements
    \/ InstallVaultKeyFile
    \/ DeferDestroyKeys
    \/ BuildArgs
    \/ BuildEnv
    \/ AppRun
    \/ Callback
    \/ AppRunReturns
    \/ Kill
    \/ KillTest
    \/ KillProcess

Spec == Init /\ [][Next]_vars

-----------------------------------------------------------------------------
(* The command builders called on their own, each at most once, on a job   *)
(* as constructed, all with the same parameters (kept in runUsername and   *)
(* runIncomingVersion).  built maps the name of a builder that has been    *)
(* called to what it returned.                                             *)

ArgVersions == {Nil, Ptr(Str("v1"))}

\* Jobs that vary what makes the end of the playbook vector.
TailJobs ==
    {[DefaultJob EXCEPT !.Task.Playbook = pb, !.Task.Limit = lim,
                        !.Task.Arguments = ta, !.Template.Arguments = tpa,
                        !.Template.AllowOverrideArgsInTask = ao,
                        !.Task.DryRun = dr] :
        pb \in {Empty, Str("deploy.yml")},
        lim \in {Empty, Str("web*")},
        ta \in {Nil, Ptr(<<"[", "--tags", ",", "db", "]">>), Ptr(<<"[", "--tags">>)},
        tpa \in {Nil, Ptr(<<"[", "-v", ",", "--flush-cache", "]">>),
                 Ptr(<<"[", "--check", "]">>)},
        ao \in BOOLEAN, dr \in BOOLEAN}

\* Jobs that vary the flags, the login of the SSH key and the payload text.
FlagJobs ==
    {[DefaultJob EXCEPT !.Task.Debug = dbg, !.Task.Diff = diff, !.Task.DryRun = dr,
                        !.Template.VaultKeyID = vk, !.Environment.JSON = js,
                        !.Inventory.SSHKeyID = Ptr(3),
                        !.Inventory.SSHKey = [Type |-> AccessKeySSH,
                                              SshKey |-> [Login |-> login]]] :
        dbg \in BOOLEAN, diff \in BOOLEAN, dr \in BOOLEAN, vk \in {Nil, Ptr(7)},
        js \in {Empty, <<"{", "app", ":", "web", "}">>, <<"{", "app">>},
        login \in {Empty, Str("deploy")}}

\* Jobs that vary the job kind of the template and what the payload tells of the task.
KindJobs ==
    {[DefaultJob EXCEPT !.Template.Type = tt, !.Task.Message = msg,
                        !.Task.Version = ver, !.Environment.JSON = js] :
        tt \in {TemplateTask, TemplateBuild, "deploy"},
        msg \in {Empty, Str("nightly")},
        ver \in {Nil, Ptr(Str("1.2.0"))},
        js \in {Empty, <<"{", "app", ":", "web", "}">>, <<"{", "app">>}}

\* Jobs that vary the inventory kind and the task the inventory file is named after.
InventoryFileJobs ==
    {[DefaultJob EXCEPT !.Inventory.Type = it, !.Task.ID = id] :
        it \in {InventoryFile, InventoryStatic, InventoryStaticYaml, "unknown"},
        id \in {7, 1024}}

ArgJobs == TailJobs \cup FlagJobs \cup KindJobs \cup InventoryFileJobs \cup KeyJobs

InitArgs ==
    /\ \E j \in ArgJobs : NewLocalJob(j)
    /\ runUsername \in Usernames
    /\ runIncomingVersion \in ArgVersions
    /\ built = NotBuilt
    /\ db = NoBuckets
    /\ dbRet = NoReturn

Built(name) == name \in DOMAIN built

\* What a builder call leaves alone: everything but built and the log.
builderUnchanged ==
    <<boltVars, steps, jobVars, Process, vaultFileInstallation, runLocals, runPc, runErr,
      deferred, ops, status, procState, killVars>>

GetPlaybookArgs ==
    /\ ~Built("getPlaybookArgs")
    /\ LET r == getPlaybookArgs(runUsername, runIncomingVersion)
       IN  /\ built' = MapSet(built, "getPlaybookArgs", [args |-> r.args, err |-> r.err])
           /\ log' = log \o r.log
    /\ UNCHANGED builderUnchanged

GetTerraformArgs ==
    /\ ~Built("getTerraformArgs")
    /\ \E perm \in Orders(ExtraVarsKeys(runUsername, runIncomingVersion)) :
          LET r == getTerraformArgs(runUsername, runIncomingVersion, perm)
          IN  /\ built' = MapSet(built, "getTerraformArgs", [args |-> r.args, err |-> r.err])
              /\ log' = log \o r.log
    /\ UNCHANGED builderUnchanged

GetEnvironmentExtraVars ==
    /\ ~Built("getEnvironmentExtraVars")
    /\ built' = MapSet(built, "getEnvironmentExtraVars",
                       getEnvironmentExtraVars(runUsername, runIncomingVersion))
    /\ UNCHANGED <<builderUnchanged, log>>

GetEnvironmentExtraVarsJSON ==
    /\ ~Built("getEnvironmentExtraVarsJSON")
    /\ built' = MapSet(built, "getEnvironmentExtraVarsJSON",
                       getEnvironmentExtraVarsJSON(runUsername, runIncomingVersion))
    /\ UNCHANGED <<builderUnchanged, log>>

NextArgs ==
    \/ GetPlaybookArgs
    \/ GetTerraformArgs
    \/ GetEnvironmentExtraVars
    \/ GetEnvironmentExtraVarsJSON

SpecArgs == InitArgs /\ [][NextArgs]_vars

-----------------------------------------------------------------------------
(* BoltDb: the object store.  A bucket has the counter that NextSequence   *)
(* increments and its key/value pairs; db maps the ids of the buckets that *)
(* exist to them.  An object is a record with the field ID.                *)

MaxSequence == 1

\* db.InventoryObject and another db.ObjectProperties.
InventoryObject == [TableName |-> "project__inventory"]
EnvironmentObject == [TableName |-> "project__environment"]
ObjectTypes == {InventoryObject, EnvironmentObject}

ProjectIDs == {1, 2}
ObjectIDs == 1..(MaxSequence + 1)
ObjectNames == {"a", "b"}

\* fmt.Sprintf("_%010d", id)
RECURSIVE Zeros(_)
Zeros(n) == IF n <= 0 THEN <<>> ELSE <<"0">> \o Zeros(n - 1)
Sprintf010d(id) == <<"_">> \o Zeros(10 - Len(Itoa(id))) \o Itoa(id)

RECURSIVE makeBucketId(_, _)
makeBucketId(props, ids) ==
    IF ids = <<>> THEN Str(props.TableName)
    ELSE makeBucketId(props, SubSeq(ids, 1, Len(ids) - 1)) \o Sprintf010d(ids[Len(ids)])

\* json.Marshal of an object.
MarshalObject(object) ==
    <<"{", "\"", "id", "\"", ":">> \o Itoa(object.ID)
       \o <<",", "\"", "name", "\"", ":", "\"", object.Name, "\"", "}">>

\* Bucket.Delete: the pairs without key k (nothing changes if k is absent).
Delete(kv, k) == [x \in (DOMAIN kv) \ {k} |-> kv[x]]

isObjectInUse(store, projectID, props, objectID) ==
    LET b == makeBucketId(props, <<projectID>>)
    IN  [inUse |-> b \in DOMAIN store /\ Itoa(objectID) \in DOMAIN store[b].kv,
         err |-> NoErr]

\* Faulty variant of deleteObject: the object is deleted from the bucket of
\* its own type.
deleteObjectOfItsType(store, projectID, props, objectID) ==
    LET b == makeBucketId(props, <<projectID>>)
    IN  IF b \notin DOMAIN store
        THEN [db |-> store, err |-> Err("ErrNotFound")]
        ELSE [db |-> [store EXCEPT ![b].kv = Delete(@, Itoa(objectID))], err |-> NoErr]

deleteObject(store, projectID, props, objectID) ==
    LET u == isObjectInUse(store, projectID, props, objectID)
        b == makeBucketId(InventoryObject, <<projectID>>)
    IN  IF u.err # NoErr THEN [db |-> store, err |-> u.err]
        ELSE IF u.inUse THEN [db |-> store, err |-> Err("ErrInvalidOperation")]
        ELSE IF b \notin DOMAIN store THEN [db |-> store, err |-> Err("ErrNotFound")]
        ELSE [db |-> [store EXCEPT ![b].kv = Delete(@, Itoa(objectID))], err |-> NoErr]

deleteObjectSoft(store, projectID, props, objectID) ==
    deleteObject(store, projectID, props, objectID)

updateObject(store, projectID, props, object) ==
    LET b  == makeBucketId(props, <<projectID>>)
        id == Itoa(object.ID)
    IN  IF b \notin DOMAIN store THEN [db |-> store, err |-> Err("ErrNotFound")]
        ELSE IF id \notin DOMAIN store[b].kv THEN [db |-> store, err |-> Err("ErrNotFound")]
        ELSE [db |-> [store EXCEPT ![b].kv = MapSet(@, id, MarshalObject(object))],
              err |-> NoErr]

\* createObject: the bucket is created if it does not exist, the object gets
\* the next number of the bucket's sequence as its ID and is stored under it.
createObject(store, projectID, props, object) ==
    LET b      == makeBucketId(props, <<projectID>>)
        bucket == IF b \in DOMAIN store THEN store[b]
                  ELSE [sequence |-> 0, kv |-> EmptyMap]
        id     == bucket.sequence + 1
        obj    == [object EXCEPT !.ID = id]
    IN  [db |-> MapSet(store, b, [sequence |-> id,
                                  kv |-> MapSet(bucket.kv, Itoa(id), MarshalObject(obj))]),
         object |-> obj, err |-> NoErr]

\* What an operation of the store leaves alone: the job.
boltUnchanged ==
    <<built, steps, jobVars, Process, vaultFileInstallation, runLocals, runPc, runErr,
      deferred, ops, log, status, procState, killVars>>

CreateObject ==
    /\ \E projectID \in ProjectIDs, props \in ObjectTypes, name \in ObjectNames :
          LET b == makeBucketId(props, <<projectID>>)
              r == createObject(db, projectID, props, [ID |-> 0, Name |-> name])
          IN  /\ b \in DOMAIN db => db[b].sequence < MaxSequence
              /\ db' = r.db
              /\ dbRet' = r.err
    /\ UNCHANGED boltUnchanged

UpdateObject ==
    /\ \E projectID \in ProjectIDs, props \in ObjectTypes, id \in ObjectIDs,
          name \in ObjectNames :
          LET r == updateObject(db, projectID, props, [ID |-> id, Name |-> name])
          IN  /\ db' = r.db
              /\ dbRet' = r.err
    /\ UNCHANGED boltUnchanged

DeleteObject ==
    /\ \E projectID \in ProjectIDs, props \in ObjectTypes, objectID \in ObjectIDs :
          LET r == deleteObject(db, projectID, props, objectID)
          IN  /\ db' = r.db
              /\ dbRet' = r.err
    /\ UNCHANGED boltUnchanged

DeleteObjectSoft ==
    /\ \E projectID \in ProjectIDs, props \in ObjectTypes, objectID \in ObjectIDs :
          LET r == deleteObjectSoft(db, projectID, props, objectID)
          IN  /\ db' = r.db
              /\ dbRet' = r.err
    /\ UNCHANGED boltUnchanged

InitBolt ==
    /\ NewLocalJob(DefaultJob)
    /\ runUsername = Empty
    /\ runIncomingVersion = Nil
    /\ built = NotBuilt
    /\ db = NoBuckets
    /\ dbRet = NoReturn

NextBolt ==
    \/ CreateObject
    \/ UpdateObject
    \/ DeleteObject
    \/ DeleteObjectSoft

SpecBolt == InitBolt /\ [][NextBolt]_vars

-----------------------------------------------------------------------------
(* Properties.                                                             *)

HasStep(name) == \E i \in DOMAIN steps : steps[i].step = name
TheStep(name) == steps[CHOOSE i \in DOMAIN steps : steps[i].step = name]

\* Positions of the calls of name in the call sequence T.
Calls(T, name) == {i \in DOMAIN T : T[i].op = name}

VCSOps == {"ValidateRepo", "CanBePulled", "Pull", "RemoveAll", "Clone", "Checkout"}

\* The run was aborted with err before any process was started.
AbortedWith(err) ==
    /\ runPc = "returned"
    /\ runErr = err
    /\ ~HasOp(ops, "App.Run")
    /\ procState = "none"
    /\ Process = Nil

\* C1 (as claimed): whenever Run has returned, whatever the phase it ended
\* in, destroyKeys has been executed exactly once.
C1_CleanupExactlyOncePerRun ==
    runPc = "returned" => CountOp(ops, "destroyKeys") = 1

\* C2: if a prepare step returned an error, Run has returned that same error
\* and App.Run was never invoked (no process was started).
C2_PrepareErrorAbortsRun ==
    \A i \in DOMAIN steps :
        steps[i].err # NoErr => AbortedWith(steps[i].err)

C2_Witness ==
    /\ HasStep("installVaultKeyFile")
    /\ TheStep("installVaultKeyFile").err = Err("ErrInstallVaultKey")
    /\ runPc = "returned"

\* C3: the step of Kill that finds no process handle recorded ends Kill and
\* changes nothing else: no kill request, no log message, no job state.
C3_KillWithoutHandleIsNoOp ==
    [][(killPc = "check" /\ killPc' # "check" /\ Process = Nil)
          => /\ killPc' = "idle"
             /\ UNCHANGED <<built, boltVars, jobVars, Process, vaultFileInstallation, runLocals, runPc,
                            runErr, deferred, ops, steps, log, status, procState,
                            kills, killRequests>>]_vars

\* A Kill came and went while the process was started but its handle not yet
\* recorded.
C3_Witness ==
    /\ runPc = "callback"
    /\ procState = "running"
    /\ kills > 0
    /\ killPc = "idle"
    /\ killRequests = 0
    /\ log = <<Str("Preparing: ") \o Itoa(Task.ID)>>

\* C4 (as claimed): the write of the handle by the process-start callback and
\* a read of it by Kill exclude each other: they are never both the next
\* step of their goroutines.
C4_HandleAccessesExcludeEachOther ==
    ~(runPc = "callback" /\ killPc \in {"check", "kill"})

\* C5 (as claimed): with an unsupported engine kind Run never panics, starts
\* no process, and what it returns is an error.
C5_UnsupportedEngineIsAnError ==
    Template.App # TemplateAnsible
        => /\ runPc # "panicked"
           /\ ~HasOp(ops, "App.Run")
           /\ (runPc = "returned" => runErr # NoErr)

\* C6: for a local repository Run makes no VCS call at all; the repository
\* step is exactly one os.Stat of the path, and its error aborts the run.
C6_LocalRepositoryOnlyStat ==
    Repository.Type = RepositoryLocal
        => /\ \A i \in DOMAIN ops : ops[i].op \notin VCSOps
           /\ ~HasStep("updateRepository")
           /\ ~HasStep("checkoutRepository")
           /\ (HasStep("installInventory") => HasStep("statRepository"))
           /\ HasStep("statRepository")
                 => LET st == TheStep("statRepository")
                    IN  /\ st.calls = <<Call("Stat", Repository.GitURL, st.answers[1])>>
                        /\ st.err = st.answers[1]
                        /\ (st.err # NoErr => AbortedWith(st.err))

C6_Witness ==
    /\ Repository.Type = RepositoryLocal
    /\ HasStep("statRepository")
    /\ TheStep("statRepository").err = Err("ErrStat")
    /\ runPc = "returned"

\* C7 (as claimed): in a synchronization whose working copy validates and can
\* be fast-forwarded, pull is invoked; if it succeeds there is no clone and
\* no removal; if it fails, the removal and then exactly one clone follow.
C7_PullThenCloneFallback ==
    HasStep("updateRepository") =>
        LET st == TheStep("updateRepository")
            T  == st.calls
            a  == st.answers
        IN  (a.vErr = NoErr /\ a.canBePulled)
               => /\ Cardinality(Calls(T, "Pull")) = 1
                  /\ (a.pullErr = NoErr
                        => Calls(T, "Clone") = {} /\ Calls(T, "RemoveAll") = {})
                  /\ (a.pullErr # NoErr
                        => /\ Cardinality(Calls(T, "RemoveAll")) = 1
                           /\ Cardinality(Calls(T, "Clone")) = 1
                           /\ \A p \in Calls(T, "Pull"), r \in Calls(T, "RemoveAll"),
                                 c \in Calls(T, "Clone") : p < r /\ r < c)

\* C7 (amended): as C7, but after a failed pull the clone follows the removal
\* only if the removal succeeded; a failed removal ends the synchronization
\* with the removal's error and no clone.
C7_PullThenCloneFallbackUnlessRemovalFails ==
    HasStep("updateRepository") =>
        LET st == TheStep("updateRepository")
            T  == st.calls
            a  == st.answers
        IN  (a.vErr = NoErr /\ a.canBePulled)
               => /\ Cardinality(Calls(T, "Pull")) = 1
                  /\ (a.pullErr = NoErr
                        => Calls(T, "Clone") = {} /\ Calls(T, "RemoveAll") = {})
                  /\ (a.pullErr # NoErr
                        => /\ Cardinality(Calls(T, "RemoveAll")) = 1
                           /\ \A p \in Calls(T, "Pull"), r \in Calls(T, "RemoveAll") :
                                 p < r
                           /\ IF a.rmErr = NoErr
                              THEN /\ Cardinality(Calls(T, "Clone")) = 1
                                   /\ \A r \in Calls(T, "RemoveAll"),
                                         c \in Calls(T, "Clone") : r < c
                              ELSE /\ Calls(T, "Clone") = {}
                                   /\ st.err = a.rmErr)

C7_Witness ==
    /\ HasStep("updateRepository")
    /\ LET st == TheStep("updateRepository")
       IN  /\ st.answers.vErr = NoErr
           /\ st.answers.canBePulled
           /\ st.answers.pullErr # NoErr
           /\ st.answers.rmErr = NoErr
           /\ Calls(st.calls, "Clone") # {}

\* C8 (as claimed): in a synchronization whose validation fails, clone is
\* invoked exactly once and pull never.
C8_InvalidCopyClonedOnce ==
    HasStep("updateRepository") =>
        LET st == TheStep("updateRepository")
        IN  st.answers.vErr # NoErr
               => /\ Cardinality(Calls(st.calls, "Clone")) = 1
                  /\ Calls(st.calls, "Pull") = {}

\* C8 (amended): in a synchronization whose validation fails pull is never
\* invoked, and clone is invoked exactly once unless the removal of the
\* stale directory (made when the validation error is not "does not exist")
\* fails: then clone is not invoked and the removal's error is returned.
C8_InvalidCopyClonedOnceUnlessRemovalFails ==
    HasStep("updateRepository") =>
        LET st == TheStep("updateRepository")
            a  == st.answers
        IN  a.vErr # NoErr
               => /\ Calls(st.calls, "Pull") = {}
                  /\ Calls(st.calls, "CanBePulled") = {}
                  /\ IF ~IsNotExist(a.vErr) /\ a.rmErr # NoErr
                     THEN Calls(st.calls, "Clone") = {} /\ st.err = a.rmErr
                     ELSE Cardinality(Calls(st.calls, "Clone")) = 1
                          /\ st.err = a.cloneErr

C8_Witness ==
    /\ HasStep("updateRepository")
    /\ LET st == TheStep("updateRepository")
       IN  /\ st.answers.vErr = Err("ErrInvalidRepo")
           /\ Cardinality(Calls(st.calls, "Clone")) = 1

\* C9 (as claimed): in every synchronization each clone is preceded by a
\* removal of the directory, and no clone follows a failed removal.
C9_RemovalPrecedesEveryClone ==
    HasStep("updateRepository") =>
        LET T == TheStep("updateRepository").calls
        IN  \A c \in Calls(T, "Clone") :
               /\ \E r \in Calls(T, "RemoveAll") : r < c
               /\ \A r \in Calls(T, "RemoveAll") : r < c => T[r].res = NoErr

\* C9 (amended): each clone is preceded by a successful removal of the
\* directory on the paths "validation failed for another reason than the
\* working copy not existing", "not fast-forwardable" and "pull failed"; when
\* validation failed because the working copy does not exist the clone is
\* made without a removal; no clone follows a failed removal.
C9_RemovalPrecedesCloneUnlessAbsent ==
    HasStep("updateRepository") =>
        LET st == TheStep("updateRepository")
            T  == st.calls
        IN  /\ \A c \in Calls(T, "Clone") :
                  /\ IF IsNotExist(st.answers.vErr)
                     THEN Calls(T, "RemoveAll") = {}
                     ELSE \E r \in Calls(T, "RemoveAll") : r < c
                  /\ \A r \in Calls(T, "RemoveAll") : r < c /\ T[r].res = NoErr
            /\ \A r \in Calls(T, "RemoveAll") :
                  T[r].res # NoErr => Calls(T, "Clone") = {} /\ st.err = T[r].res

C9_Witness ==
    /\ HasStep("updateRepository")
    /\ LET st == TheStep("updateRepository")
       IN  /\ st.answers.vErr = NoErr
           /\ ~st.answers.canBePulled
           /\ Calls(st.calls, "RemoveAll") # {}
           /\ Calls(st.calls, "Clone") # {}

\* C10: for a non-local repository a successful synchronization is followed
\* by the checkout step, which first re-validates the working copy; when the
\* re-validation passes and the Task pins a revision, checkout is invoked
\* exactly once, with exactly that revision; an error of the re-validation or
\* of the checkout aborts the run before any process starts; with no pinned
\* revision checkout is never invoked.
C10_CheckoutOfPinnedRevision ==
    Repository.Type # RepositoryLocal =>
        /\ \A i \in DOMAIN steps :
              (steps[i].step = "updateRepository" /\ steps[i].err = NoErr)
                 => (runPc = "checkoutRepository" /\ Len(steps) = i)
                    \/ (Len(steps) > i /\ steps[i + 1].step = "checkoutRepository")
        /\ Task.CommitHash = Nil => Calls(ops, "Checkout") = {}
        /\ ~HasStep("checkoutRepository") => Calls(ops, "Checkout") = {}
        /\ \A c \in Calls(ops, "Checkout") : Ptr(ops[c].arg) = Task.CommitHash
        /\ HasStep("checkoutRepository") =>
              LET st == TheStep("checkoutRepository")
                  T  == st.calls
                  a  == st.answers
              IN  /\ T[1] = Call("ValidateRepo", Nil, a.vErr)
                  /\ Cardinality(Calls(ops, "Checkout")) = Cardinality(Calls(T, "Checkout"))
                  /\ (a.vErr # NoErr => st.err = a.vErr /\ Calls(T, "Checkout") = {})
                  /\ (a.vErr = NoErr /\ Task.CommitHash # Nil
                        => /\ Cardinality(Calls(T, "Checkout")) = 1
                           /\ T[2] = Call("Checkout", Deref(Task.CommitHash), a.coErr)
                           /\ st.err = a.coErr)
                  /\ (st.err # NoErr => AbortedWith(st.err))

C10_Witness ==
    /\ Task.CommitHash = Ptr(Str("rev2"))
    /\ HasStep("checkoutRepository")
    /\ TheStep("checkoutRepository").err = NoErr
    /\ Calls(ops, "Checkout") # {}
    /\ runPc = "waiting"

-----------------------------------------------------------------------------
(* Command building inside Run.                                            *)

Range(seq) == {seq[i] : i \in DOMAIN seq}

\* Run has called the command builder and the builder has returned.
ArgsWereBuilt ==
    /\ Template.App = TemplateAnsible
    /\ \/ runPc \in {"buildEnv", "appRun", "callback", "waiting"}
       \/ runPc = "returned" /\ HasOp(ops, "destroyKeys")

\* Run came to start the process (whether or not the start succeeded).
ProcessStartAttempted == HasOp(ops, "App.Run")

InventoryKnown ==
    Inventory.Type \in {InventoryFile, InventoryStatic, InventoryStaticYaml}

LoginKeyUnsuitable ==
    /\ Inventory.SSHKeyID # Nil
    /\ Inventory.SSHKey.Type \notin {AccessKeySSH, AccessKeyLoginPassword, AccessKeyNone}

BecomeKeyUnsuitable ==
    /\ Inventory.BecomeKeyID # Nil
    /\ Inventory.BecomeKey.Type \notin {AccessKeyLoginPassword, AccessKeyNone}

PayloadFails == Environment.JSON # Empty /\ ~IsObject(Environment.JSON)

\* C11 (as claimed): if Environment.JSON is not a valid JSON object, then
\* whether the template and task extra arguments are absent or present (and
\* well formed), the failure is only logged: once the command has been built
\* the vector has no --extra-vars, and a Run that has returned (its process
\* environment being valid) did come to start the process.
C11_PayloadErrorIsOnlyLogged ==
    (/\ ArgsWereBuilt
     /\ PayloadFails
     /\ InventoryKnown /\ ~LoginKeyUnsuitable /\ ~BecomeKeyUnsuitable
     /\ Template.Arguments # Nil => IsStringArray(Deref(Template.Arguments))
     /\ Task.Arguments # Nil => IsStringArray(Deref(Task.Arguments))
     /\ Environment.ENV # Nil => IsObject(Deref(Environment.ENV)))
    => /\ Str("--extra-vars") \notin Range(args)
       /\ runPc = "returned" => ProcessStartAttempted

\* C12: if the inventory login key is referenced and its kind is none of
\* ssh, login_password, none, or the become key is referenced and its kind is
\* none of login_password, none, then the command building of Run fails:
\* Run never gets past it, it returns an error, and no process is started.
C12_UnsuitableKeyFailsBeforeStart ==
    (Template.App = TemplateAnsible /\ (LoginKeyUnsuitable \/ BecomeKeyUnsuitable))
    => /\ runPc \notin {"buildEnv", "appRun", "callback", "waiting"}
       /\ ~ProcessStartAttempted
       /\ procState = "none"
       /\ (runPc = "returned" /\ HasOp(ops, "destroyKeys"))
             => runErr \in {Err("invalid invetory type"),
                            Err("access key does not suite for inventory's user credentials"),
                            Err("access key does not suite for inventory's sudo user credentials")}

\* The login key suits, the become key is an SSH key: Run has returned the
\* become key error from the command building.
C12_Witness ==
    /\ Inventory.SSHKeyID # Nil /\ Inventory.SSHKey.Type = AccessKeyLoginPassword
    /\ Inventory.BecomeKeyID # Nil /\ Inventory.BecomeKey.Type = AccessKeySSH
    /\ runPc = "returned"
    /\ HasOp(ops, "destroyKeys")
    /\ runErr = Err("access key does not suite for inventory's sudo user credentials")
    /\ ~ProcessStartAttempted

-----------------------------------------------------------------------------
(* The builders on their own (SpecArgs).                                   *)

PlaybookBuilt == Built("getPlaybookArgs") /\ built["getPlaybookArgs"].err = NoErr
PlaybookArgs == built["getPlaybookArgs"].args

\* What the job's fields say the end of the playbook vector is.
TemplateExtraArgs ==
    IF Template.Arguments # Nil
    THEN UnmarshalStringArray(Deref(Template.Arguments)).val ELSE <<>>
TaskExtraArgs ==
    IF Template.AllowOverrideArgsInTask /\ Task.Arguments # Nil
    THEN UnmarshalStringArray(Deref(Task.Arguments)).val ELSE <<>>
LimitArg == IF Task.Limit # Empty THEN <<Str("--limit=") \o Task.Limit>> ELSE <<>>
PlaybookPath == IF Task.Playbook # Empty THEN Task.Playbook ELSE Template.Playbook
ExpectedTail == TemplateExtraArgs \o TaskExtraArgs \o LimitArg \o <<PlaybookPath>>

LastN(seq, n) == SubSeq(seq, Len(seq) - n + 1, Len(seq))
Occurrences(seq, x) == Cardinality({i \in DOMAIN seq : seq[i] = x})

\* C13: every playbook vector built without error ends with the template
\* extra arguments, then the task extra arguments (parsed only if the
\* template allows the override), then --limit=<Task.Limit> if the limit is
\* not empty, then, last, Task.Playbook if not empty, else Template.Playbook.
C13_TailOfPlaybookArgs ==
    PlaybookBuilt =>
        /\ Len(PlaybookArgs) >= Len(ExpectedTail) + 2
        /\ LastN(PlaybookArgs, Len(ExpectedTail)) = ExpectedTail
        /\ PlaybookArgs[Len(PlaybookArgs)] = PlaybookPath

C13_Witness ==
    /\ PlaybookBuilt
    /\ Len(TemplateExtraArgs) = 2
    /\ Len(TaskExtraArgs) = 2
    /\ Task.Limit # Empty
    /\ Task.Playbook # Empty
    /\ LastN(PlaybookArgs, 6) =
          <<Str("-v"), Str("--flush-cache"), Str("--tags"), Str("db"),
            <<"--limit=", "web*">>, Str("deploy.yml")>>

\* C14: whatever else the playbook builder returns, its vector starts with
\* -i and the inventory file: Inventory.Inventory for the file kind,
\* <TmpPath>/inventory_<Task.ID> for the static kind, the same with .yml
\* appended for the static-yaml kind; for any other kind the builder returns
\* an error and an empty vector.
C14_InventoryArgument ==
    Built("getPlaybookArgs") =>
        LET r == built["getPlaybookArgs"]
            static == TmpPath \o Str("/inventory_") \o Itoa(Task.ID)
        IN  CASE Inventory.Type = InventoryFile ->
                    Len(r.args) >= 2 /\ SubSeq(r.args, 1, 2) = <<Str("-i"), Inventory.Inventory>>
              [] Inventory.Type = InventoryStatic ->
                    Len(r.args) >= 2 /\ SubSeq(r.args, 1, 2) = <<Str("-i"), static>>
              [] Inventory.Type = InventoryStaticYaml ->
                    Len(r.args) >= 2
                    /\ SubSeq(r.args, 1, 2) = <<Str("-i"), static \o Str(".yml")>>
              [] OTHER -> r.err # NoErr /\ r.args = <<>>

C14_Witness ==
    /\ PlaybookBuilt
    /\ Inventory.Type = InventoryStaticYaml
    /\ Task.ID = 1024
    /\ PlaybookArgs[2] = <<"/tmp/semaphore", "/inventory_", "1", "0", "2", "4", ".yml">>

\* The JSON text has a member named key, and the value of that member.
MemberAt(text, key) ==
    {i \in 1..(Len(text) - 4) : SubSeq(text, i, i + 3) = <<"\"", key, "\"", ":">>}
HasMember(text, key) == MemberAt(text, key) # {}
HasMemberWith(text, key, value) ==
    \E i \in MemberAt(text, key) :
        /\ Len(text) >= i + 3 + Len(value)
        /\ SubSeq(text, i + 4, i + 3 + Len(value)) = value

\* How a nilable string reads in a JSON text.
Quoted(ptr) == IF ptr = Nil THEN <<"null">> ELSE <<"\"">> \o Deref(ptr) \o <<"\"">>

\* C15: in the payload of either builder, task_details has the member type
\* exactly when Template.Type is not task, and the member target_version,
\* holding Task.Version, exactly when Template.Type is build; the two
\* builders fail or succeed together and the text of the one is the JSON
\* encoding of the map of the other.
C15_TypeAndTargetVersion ==
    /\ (Built("getEnvironmentExtraVars") /\ built["getEnvironmentExtraVars"].err = NoErr)
       => LET m  == built["getEnvironmentExtraVars"].extraVars
              td == m["semaphore_vars"].v["task_details"].v
          IN  /\ "type" \in DOMAIN td <=> Template.Type # TemplateTask
              /\ "type" \in DOMAIN td => td["type"].v = <<Template.Type>>
              /\ "target_version" \in DOMAIN td <=> Template.Type = TemplateBuild
              /\ "target_version" \in DOMAIN td => td["target_version"].v = Task.Version
    /\ (Built("getEnvironmentExtraVarsJSON")
           /\ built["getEnvironmentExtraVarsJSON"].err = NoErr)
       => LET text == built["getEnvironmentExtraVarsJSON"].str
          IN  /\ HasMember(text, "task_details")
              /\ HasMember(text, "type") <=> Template.Type # TemplateTask
              /\ Template.Type # TemplateTask
                    => HasMemberWith(text, "type", <<"\"", Template.Type, "\"">>)
              /\ HasMember(text, "target_version") <=> Template.Type = TemplateBuild
              /\ Template.Type = TemplateBuild
                    => HasMemberWith(text, "target_version", Quoted(Task.Version))
    /\ (Built("getEnvironmentExtraVars") /\ Built("getEnvironmentExtraVarsJSON"))
       => LET m == built["getEnvironmentExtraVars"]
              j == built["getEnvironmentExtraVarsJSON"]
          IN  /\ m.err = j.err
              /\ m.err = NoErr => j.str = Marshal(m.extraVars)

\* Both builders were called for a build job with a version and a deploy job.
C15_Witness ==
    /\ Built("getEnvironmentExtraVars")
    /\ Built("getEnvironmentExtraVarsJSON")
    /\ built["getEnvironmentExtraVarsJSON"].err = NoErr
    /\ Template.Type = TemplateBuild
    /\ Task.Version = Ptr(Str("1.2.0"))
    /\ Environment.JSON # Empty
    /\ HasMemberWith(built["getEnvironmentExtraVarsJSON"].str, "target_version",
                     <<"\"", "1.2.0", "\"">>)

TerraformBuilt == Built("getTerraformArgs") /\ built["getTerraformArgs"].err = NoErr
TerraformArgs == built["getTerraformArgs"].args

\* The arguments the playbook builder adds by itself, before the extra
\* arguments of the template and the task and the playbook.
OwnPlaybookArgs == SubSeq(PlaybookArgs, 1, Len(PlaybookArgs) - Len(ExpectedTail))

\* C16 (as claimed): with Task.DryRun the vector of either builder has the
\* builder's dry-run token (plan, --check) as its first element and does not
\* hold the apply token; without Task.DryRun the dry-run token is not in the
\* vector.
C16_DryRunTokenLeads ==
    /\ TerraformBuilt =>
          IF Task.DryRun
          THEN TerraformArgs[1] = Str("plan") /\ Str("apply") \notin Range(TerraformArgs)
          ELSE Str("plan") \notin Range(TerraformArgs)
    /\ PlaybookBuilt =>
          IF Task.DryRun
          THEN PlaybookArgs[1] = Str("--check")
          ELSE Str("--check") \notin Range(PlaybookArgs)

\* C16 (amended): the first element of the terraform vector is plan with
\* Task.DryRun and apply without; the playbook vector starts with -i and,
\* among the arguments the builder adds by itself, holds --check once with
\* Task.DryRun and not at all without; any other --check in it comes from
\* the extra arguments of the template or the task.
C16_DryRunTokenByBuilder ==
    /\ Built("getTerraformArgs") =>
          /\ Len(TerraformArgs) >= 1
          /\ TerraformArgs[1] = IF Task.DryRun THEN Str("plan") ELSE Str("apply")
    /\ PlaybookBuilt =>
          /\ PlaybookArgs[1] = Str("-i")
          /\ Occurrences(OwnPlaybookArgs, Str("--check")) = IF Task.DryRun THEN 1 ELSE 0
          /\ Occurrences(PlaybookArgs, Str("--check")) =
                Occurrences(OwnPlaybookArgs, Str("--check"))
                   + Occurrences(TemplateExtraArgs \o TaskExtraArgs, Str("--check"))

\* Both builders were called for a dry run whose template adds --check again.
C16_Witness ==
    /\ Task.DryRun
    /\ TerraformBuilt
    /\ TerraformArgs[1] = Str("plan")
    /\ PlaybookBuilt
    /\ Occurrences(PlaybookArgs, Str("--check")) = 2

-----------------------------------------------------------------------------
(* The order of Run (Spec).                                                *)

\* The prepare step that comes after the step named step when it succeeds;
\* "none" after the last one.
StepAfter(step) ==
    CASE step = "checkTmpDir" ->
            IF Repository.Type = RepositoryLocal THEN "statRepository"
            ELSE "updateRepository"
      [] step = "statRepository" -> "installInventory"
      [] step = "updateRepository" -> "checkoutRepository"
      [] step = "checkoutRepository" -> "installInventory"
      [] step = "installInventory" -> "InstallRequirements"
      [] step = "InstallRequirements" -> "installVaultKeyFile"
      [] step = "installVaultKeyFile" -> "none"

\* What prepareRun logs when the step named step fails with err.
FailureMessage(step, err) ==
    (CASE step = "checkTmpDir" -> Str("Creating tmp dir failed: ")
       [] step = "statRepository" ->
             Str("Failed in finding static repository at ") \o Repository.GitURL \o Str(": ")
       [] step = "updateRepository" -> Str("Failed updating repository: ")
       [] step = "checkoutRepository" ->
             Str("Failed to checkout repository to required commit: ")
       [] step = "installInventory" -> Str("Failed to install inventory: ")
       [] step = "InstallRequirements" -> Str("Running galaxy failed: ")
       [] step = "installVaultKeyFile" -> Str("Failed to install vault password file: "))
    \o ErrorText(err)

PrepareSucceeded ==
    /\ steps # <<>>
    /\ steps[Len(steps)].step = "installVaultKeyFile"
    /\ \A i \in DOMAIN steps : steps[i].err = NoErr

\* C17: the status is running before any prepare step; the prepare steps
\* executed so far are a start of the order tmp-dir check, repository (stat
\* of a local one, else update then checkout), inventory, requirements,
\* vault key; only the last executed step can have failed, and then the log
\* holds one message for it after "Preparing", Run has returned, and nothing
\* was built or started; the command is built, the cleanup deferred and the
\* process started only after all steps succeeded.
C17_PrepareOrder ==
    /\ (runPc # "created" \/ steps # <<>>) => status = "running"
    /\ steps # <<>> => steps[1].step = "checkTmpDir"
    /\ \A i \in DOMAIN steps :
          i < Len(steps) => /\ steps[i].err = NoErr
                            /\ steps[i + 1].step = StepAfter(steps[i].step)
    /\ (steps # <<>> /\ steps[Len(steps)].err # NoErr)
          => LET last == steps[Len(steps)]
             IN  /\ runPc = "returned"
                 /\ Len(log) = 2
                 /\ log[2] = FailureMessage(last.step, last.err)
                 /\ args = <<>>
                 /\ ~HasOp(ops, "App.Run")
    /\ (\/ runPc \in {"prepared", "buildArgs", "buildEnv", "appRun", "callback",
                       "waiting", "panicked"}
        \/ args # <<>>
        \/ deferred # <<>>
        \/ HasOp(ops, "App.Run")
        \/ procState # "none")
          => PrepareSucceeded
    /\ runPc \in {"checkTmpDir", "repository", "checkoutRepository", "installInventory",
                  "installRequirements", "installVaultKeyFile"}
          => \A i \in DOMAIN steps : steps[i].err = NoErr

\* The requirements install of a job with a git repository failed, as the
\* fifth step executed.
C17_Witness ==
    /\ Repository.Type = RepositoryGit
    /\ Len(steps) = 5
    /\ steps[5].step = "InstallRequirements"
    /\ steps[5].err # NoErr
    /\ runPc = "returned"
    /\ Len(log) = 2

-----------------------------------------------------------------------------
(* Kill and the process handle (Spec).                                     *)

\* Run is in its prepare or command-building phase, App.Run not yet called.
BeforeStart ==
    runPc \in {"checkTmpDir", "repository", "checkoutRepository", "installInventory",
               "installRequirements", "installVaultKeyFile", "prepared", "buildArgs",
               "buildEnv", "appRun"}

\* A step of the goroutine that runs Kill.
KillStep == killPc' # killPc \/ kills' # kills \/ killRequests' # killRequests

\* C18: a step of Kill taken while Run prepares or builds the command only
\* enters Kill or leaves it without a kill request: it changes no field of
\* the job, no status, no log; in that phase no handle is recorded and no
\* kill was requested, and when Run comes to start the process it can start
\* it whatever Kills came and went; a process is only ever killed by a kill
\* request, which a Kill issues only on a recorded handle.
C18_EarlyKillLeavesNoTrace ==
    /\ [][(BeforeStart /\ KillStep)
             => /\ killPc' \in {"idle", "check"}
                /\ UNCHANGED <<built, boltVars, jobVars, Process, vaultFileInstallation,
                               runLocals, runPc, runErr, deferred, ops, steps, log,
                               status, procState, killRequests>>]_vars
    /\ [](BeforeStart => Process = Nil /\ killRequests = 0 /\ killPc # "kill"
                          /\ procState = "none")
    /\ [](runPc = "appRun" => ENABLED (AppRun /\ procState' = "running"))
    /\ [](procState = "killed" => killRequests >= 1)
    /\ [][killRequests' # killRequests => Process # Nil /\ killPc = "kill"]_vars

\* Run is about to start the process; a Kill came and went before.
C18_Witness ==
    /\ runPc = "appRun"
    /\ kills >= 1
    /\ killPc = "idle"
    /\ killRequests = 0
    /\ status = "running"

\* C19: the handle changes only in the callback of App.Run, from nil to the
\* process, and is never changed again; a Kill that reads a recorded handle
\* goes on to request the kill, whatever the state of Run and of the
\* process; the request changes nothing of Run, in particular not what it
\* returns or returned, and its error is at most appended to the log.
C19_HandleIsKeptAndKillIsOnlyLogged ==
    /\ [][/\ Process' # Process
              => runPc = "callback" /\ runPc' = "waiting" /\ Process = Nil /\ Process' # Nil
          /\ (killPc = "check" /\ killPc' # killPc /\ Process # Nil)
              => killPc' = "kill"
          /\ (killPc = "kill" /\ killPc' # killPc)
              => /\ killRequests' = killRequests + 1
                 /\ UNCHANGED <<runPc, runErr, args, environmentVariables, ops, steps,
                                status, deferred, Process>>
                 /\ \/ log' = log /\ procState' = "killed"
                    \/ /\ Len(log') = Len(log) + 1
                       /\ SubSeq(log', 1, Len(log)) = log
                       /\ procState' = procState]_vars
    /\ [](runPc \in {"waiting", "returned"} /\ HasOp(ops, "App.Run")
             /\ ops[CHOOSE i \in DOMAIN ops : ops[i].op = "App.Run"].res = NoErr
          => Process # Nil)
    /\ [](killPc = "kill" => Process # Nil /\ ENABLED KillProcess)

\* Run has returned nil after the process exited; a Kill invoked afterwards
\* requested the kill and its error was logged.
C19_Witness ==
    /\ runPc = "returned"
    /\ runErr = NoErr
    /\ procState = "exited"
    /\ Process # Nil
    /\ killRequests >= 1
    /\ log # <<>>
    /\ log[Len(log)] = Str("ErrProcessDone")

-----------------------------------------------------------------------------
(* The object store (SpecBolt).                                            *)

\* The keys stored in the bucket of id b; none if the bucket does not exist.
Keys(store, b) == IF b \in DOMAIN store THEN DOMAIN store[b].kv ELSE {}

InventoryBuckets == {makeBucketId(InventoryObject, <<p>>) : p \in ProjectIDs}

\* C20: on every store that create, update and delete operations can make
\* and for every project, type and object id: deleteObject of an object that
\* is in the bucket of its type returns ErrInvalidOperation and the store as
\* it was; otherwise it returns a store that differs at most in the
\* inventory bucket of that project, which has lost at most that id; and no
\* operation makes a bucket other than the inventory buckets disappear or
\* lose a key.
C20_DeleteOnlyFromInventoryBucket ==
    /\ [](\A projectID \in ProjectIDs, props \in ObjectTypes, objectID \in ObjectIDs :
            LET r   == deleteObject(db, projectID, props, objectID)
                own == makeBucketId(props, <<projectID>>)
                inv == makeBucketId(InventoryObject, <<projectID>>)
            IN  IF Itoa(objectID) \in Keys(db, own)
                THEN r = [db |-> db, err |-> Err("ErrInvalidOperation")]
                ELSE /\ r.err \in {NoErr, Err("ErrNotFound")}
                     /\ DOMAIN r.db = DOMAIN db
                     /\ \A b \in DOMAIN db : b # inv => r.db[b] = db[b]
                     /\ Keys(r.db, inv) = Keys(db, inv) \ {Itoa(objectID)}
                     /\ r.err = Err("ErrNotFound") <=> inv \notin DOMAIN db)
    /\ [][\A b \in DOMAIN db :
             b \notin InventoryBuckets
                => b \in DOMAIN db' /\ DOMAIN db[b].kv \subseteq DOMAIN db'[b].kv]_vars

\* A delete was refused for an object in use, after the inventory of project
\* 1 was deleted through the type of the environments; the environment
\* buckets hold every object created in them.
C20_Witness ==
    /\ dbRet = Err("ErrInvalidOperation")
    /\ makeBucketId(InventoryObject, <<1>>) \in DOMAIN db
    /\ db[makeBucketId(InventoryObject, <<1>>)].sequence = 1
    /\ Keys(db, makeBucketId(InventoryObject, <<1>>)) = {}
    /\ Keys(db, makeBucketId(InventoryObject, <<2>>)) = {Itoa(1)}
    /\ Keys(db, makeBucketId(EnvironmentObject, <<1>>)) = {Itoa(1)}

====
